---- MODULE Spec2Model ----
(***************************************************************************)
(* Model of digitalsim.py: the stimulus part of parse_netlsit, the         *)
(* fixed-point evaluator simulate with eval_gate, and to_wavedrom_json.    *)
(* A run is main(): parse, then one evaluation step per stimulus line,     *)
(* then the encoding of the waveform map.                                  *)
(***************************************************************************)
EXTENDS Integers, Sequences, FiniteSets, TLC

VARIABLES
    lines_cleaned,   \* the lines after "STIMULUS:", each a sequence of tokens
    input_signals,   \* names after "INPUTS:"
    output_signals,  \* names after "OUTPUTS:"
    logic_blocks,    \* sequence of <<out_sig, gate_kind, params>>
    stimuli_data,    \* sequence of <<timestamp, values>>
    waveform_map,    \* name -> sequence of samples
    signal_env,      \* name -> value, the environment of the current step
    changed_flag,
    step,            \* position of the for loop over stimuli_data
    gidx,            \* position of the for loop over logic_blocks
    scans,           \* full scans of logic_blocks started in the current step
    json_output,     \* the encoded document: sequence of [name, wave]
    err,             \* the exception that ended the run, or NoErr
    pc

vars == <<lines_cleaned, input_signals, output_signals, logic_blocks,
          stimuli_data, waveform_map, signal_env, changed_flag, step, gidx,
          scans, json_output, err, pc>>

(***************************************************************************)
(* Bounds of the model.                                                    *)
(***************************************************************************)
MaxGates == 2   \* gates per circuit in the gate family
MaxLines == 2   \* stimulus lines in the stimulus family

(***************************************************************************)
(* Helpers.                                                                *)
(***************************************************************************)
Range(s) == {s[i] : i \in 1..Len(s)}

SeqsUpTo(S, n) == UNION {[1..k -> S] : k \in 0..n}

EmptyMap == [n \in {} |-> 0]

NoErr == [type |-> "none", line |-> <<>>, name |-> ""]

\* int(x) of a token: an optional sign followed by decimal digits
DigitOf(c) ==
    CASE c = "0" -> 0 [] c = "1" -> 1 [] c = "2" -> 2 [] c = "3" -> 3
      [] c = "4" -> 4 [] c = "5" -> 5 [] c = "6" -> 6 [] c = "7" -> 7
      [] c = "8" -> 8 [] c = "9" -> 9

RECURSIVE DigitsVal(_)
DigitsVal(s) ==
    IF s = <<>> THEN 0
    ELSE 10 * DigitsVal(SubSeq(s, 1, Len(s) - 1)) + DigitOf(s[Len(s)])

IntOf(tok) ==
    IF Head(tok) = "-" THEN 0 - DigitsVal(Tail(tok)) ELSE DigitsVal(tok)

\* str(x) of an integer, as its sequence of characters
DigitChar(d) ==
    CASE d = 0 -> "0" [] d = 1 -> "1" [] d = 2 -> "2" [] d = 3 -> "3"
      [] d = 4 -> "4" [] d = 5 -> "5" [] d = 6 -> "6" [] d = 7 -> "7"
      [] d = 8 -> "8" [] d = 9 -> "9"

RECURSIVE StrOf(_)
StrOf(x) ==
    IF x < 0 THEN <<"-">> \o StrOf(0 - x)
    ELSE IF x < 10 THEN <<DigitChar(x)>>
    ELSE StrOf(x \div 10) \o <<DigitChar(x % 10)>>

\* Python's & | ^ on unbounded integers (two's complement, floor division)
RECURSIVE BitAnd(_, _)
BitAnd(a, b) ==
    IF a = 0 \/ b = 0 THEN 0
    ELSE IF a = -1 THEN b
    ELSE IF b = -1 THEN a
    ELSE (a % 2) * (b % 2) + 2 * BitAnd(a \div 2, b \div 2)

RECURSIVE BitOr(_, _)
BitOr(a, b) ==
    IF a = 0 THEN b
    ELSE IF b = 0 THEN a
    ELSE IF a = -1 \/ b = -1 THEN -1
    ELSE (IF a % 2 = 1 \/ b % 2 = 1 THEN 1 ELSE 0) + 2 * BitOr(a \div 2, b \div 2)

RECURSIVE BitXor(_, _)
BitXor(a, b) ==
    IF a = 0 THEN b
    ELSE IF b = 0 THEN a
    ELSE IF a = -1 THEN -1 - b
    ELSE IF b = -1 THEN -1 - a
    ELSE (((a % 2) + (b % 2)) % 2) + 2 * BitXor(a \div 2, b \div 2)

(***************************************************************************)
(* parse_netlsit, the stimulus region.                                     *)
(***************************************************************************)
RECURSIVE CollectStimuli(_, _, _)
CollectStimuli(ls, n, acc) ==
    IF ls = <<>> THEN [err |-> NoErr, data |-> acc]
    ELSE LET tokens == Head(ls)
             timestamp == IntOf(tokens[1])
             values == [i \in 1..(Len(tokens) - 1) |-> IntOf(tokens[i + 1])]
         IN  IF Len(values) # n
             THEN [err |-> [type |-> "Stimulus line mismatch", line |-> tokens, name |-> ""],
                   data |-> <<>>]
             ELSE CollectStimuli(Tail(ls), n, Append(acc, <<timestamp, values>>))

RECURSIVE SortedSeq(_)
SortedSeq(S) ==
    IF S = {} THEN <<>>
    ELSE LET m == CHOOSE x \in S : \A y \in S : x <= y
         IN  <<m>> \o SortedSeq(S \ {m})

\* sorted(times_list), duplicates kept
SortedKeepDuplicates(times_list) ==
    LET RECURSIVE Sort(_)
        Sort(ts) ==
            IF ts = <<>> THEN <<>>
            ELSE LET i == CHOOSE k \in 1..Len(ts) : \A j \in 1..Len(ts) : ts[k] <= ts[j]
                 IN  <<ts[i]>> \o Sort(SubSeq(ts, 1, i - 1) \o SubSeq(ts, i + 1, Len(ts)))
    IN  Sort(times_list)

\* sorted(set(times_list))
SortedSet(times_list) == SortedSeq(Range(times_list))

TimesOf(data) == [i \in 1..Len(data) |-> data[i][1]]

ParseStimulus(ls, n) ==
    LET c == CollectStimuli(ls, n, <<>>)
    IN  IF c.err # NoErr THEN c
        ELSE IF TimesOf(c.data) # SortedSet(TimesOf(c.data))
        THEN [err |-> [type |-> "Times not strictly increasing", line |-> <<>>, name |-> ""],
              data |-> <<>>]
        ELSE c

(***************************************************************************)
(* eval_gate                                                               *)
(***************************************************************************)
Value(v) == [val |-> v, err |-> NoErr]
Raise(t, k) == [val |-> 0, err |-> [type |-> t, line |-> <<>>, name |-> k]]

\* an unknown kind evaluated to 0 instead of raising
UnknownGateAsZero(gate_kind) == Value(0)
UnknownGate(gate_kind) == Raise("Unknown gate type", gate_kind)

\* eval_gate with XOR computed as OR
eval_gate_xor_as_or(gate_kind, args) ==
    IF gate_kind \in {"OR", "XOR"}
    THEN IF Len(args) < 2 THEN Raise("IndexError", gate_kind)
         ELSE Value(BitOr(args[1], args[2]))
    ELSE IF gate_kind = "AND"
    THEN IF Len(args) < 2 THEN Raise("IndexError", gate_kind)
         ELSE Value(BitAnd(args[1], args[2]))
    ELSE IF gate_kind = "NOT"
    THEN IF Len(args) < 1 THEN Raise("IndexError", gate_kind)
         ELSE Value(1 - args[1])
    ELSE Raise("Unknown gate type", gate_kind)

eval_gate(gate_kind, args) ==
    IF gate_kind = "AND"
    THEN IF Len(args) < 2 THEN Raise("IndexError", gate_kind)
         ELSE Value(BitAnd(args[1], args[2]))
    ELSE IF gate_kind = "OR"
    THEN IF Len(args) < 2 THEN Raise("IndexError", gate_kind)
         ELSE Value(BitOr(args[1], args[2]))
    ELSE IF gate_kind = "NOT"
    THEN IF Len(args) < 1 THEN Raise("IndexError", gate_kind)
         ELSE Value(1 - args[1])
    ELSE IF gate_kind = "XOR"
    THEN IF Len(args) < 2 THEN Raise("IndexError", gate_kind)
         ELSE Value(BitXor(args[1], args[2]))
    ELSE UnknownGate(gate_kind)

(***************************************************************************)
(* simulate                                                                *)
(***************************************************************************)
all_nodes(ins, outs, gs) == Range(ins) \cup {gs[i][1] : i \in 1..Len(gs)} \cup Range(outs)

\* dict(zip(keys, vals)): a later occurrence of a key wins
ZipDict(keys, vals) ==
    LET n == IF Len(keys) < Len(vals) THEN Len(keys) ELSE Len(vals)
    IN  [k \in {keys[i] : i \in 1..n} |->
            vals[CHOOSE i \in 1..n : keys[i] = k /\ \A j \in 1..n : keys[j] = k => j <= i]]

\* the guard of line 91 never taken
ResolvedNever(env, dest) == FALSE

\* the guard of line 91
Resolved(env, dest) == dest \in DOMAIN env

\* the guard of line 93
ParamsReady(env, params) == \A i \in 1..Len(params) : params[i] \in DOMAIN env

\* the body of the for loop over logic_blocks, for one gate
ScanOne(env, g) ==
    IF Resolved(env, g[1]) THEN [env |-> env, hit |-> FALSE, err |-> NoErr]
    ELSE IF ParamsReady(env, g[3])
    THEN LET r == eval_gate(g[2], [i \in 1..Len(g[3]) |-> env[g[3][i]]])
         IN  IF r.err # NoErr THEN [env |-> env, hit |-> FALSE, err |-> r.err]
             ELSE [env |-> (g[1] :> r.val) @@ env, hit |-> TRUE, err |-> NoErr]
    ELSE [env |-> env, hit |-> FALSE, err |-> NoErr]

\* line 95 left out: the flag is never set
ProgressNone(flag, hit) == flag

\* line 95 outside the if: the flag is set for every gate visited
ProgressAlways(flag, hit) == TRUE

\* line 95: changed_flag after one iteration of the for loop
Progress(flag, hit) == flag \/ hit

\* the test of the while loop
LoopAgain(flag) == flag

\* lines 90-95 as a function: one full scan of gs from env
RECURSIVE ScanPass(_, _, _)
ScanPass(env, gs, flag) ==
    IF gs = <<>> THEN [env |-> env, flag |-> flag, err |-> NoErr]
    ELSE LET r == ScanOne(env, Head(gs))
         IN  IF r.err # NoErr THEN [env |-> env, flag |-> flag, err |-> r.err]
             ELSE ScanPass(r.env, Tail(gs), Progress(flag, r.hit))

\* lines 88-95 as a function: scans until one adds nothing
RECURSIVE FixedPoint(_, _, _)
FixedPoint(env, gs, flag) ==
    IF LoopAgain(flag)
    THEN LET r == ScanPass(env, gs, FALSE)
         IN  IF r.err # NoErr THEN r ELSE FixedPoint(r.env, gs, r.flag)
    ELSE [env |-> env, flag |-> flag, err |-> NoErr]

\* signal_env.get(sig, 1)
GetDefaultOne(env, sig) == IF sig \in DOMAIN env THEN env[sig] ELSE 1

\* signal_env.get(sig, 0)
Get(env, sig) == IF sig \in DOMAIN env THEN env[sig] ELSE 0

\* only the outputs sampled
SampleOutputsOnly(ins, outs) == outs

\* the names sampled at the end of a step
SampleNames(ins, outs) == ins \o outs

RECURSIVE AppendSamples(_, _, _)
AppendSamples(wmap, names, env) ==
    IF names = <<>> THEN wmap
    ELSE AppendSamples([wmap EXCEPT ![Head(names)] = Append(@, Get(env, Head(names)))],
                       Tail(names), env)

\* lines 84-98 as a function: the steps of stim, from the map wmap
RECURSIVE SimulateFrom(_, _, _, _, _)
SimulateFrom(wmap, ins, outs, gs, stim) ==
    IF stim = <<>> THEN [map |-> wmap, err |-> NoErr]
    ELSE LET r == FixedPoint(ZipDict(ins, Head(stim)[2]), gs, TRUE)
         IN  IF r.err # NoErr THEN [map |-> wmap, err |-> r.err]
             ELSE SimulateFrom(AppendSamples(wmap, SampleNames(ins, outs), r.env),
                               ins, outs, gs, Tail(stim))

\* simulate as a function of the circuit
simulate(ins, outs, gs, stim) ==
    SimulateFrom([n \in all_nodes(ins, outs, gs) |-> <<>>], ins, outs, gs, stim)

(***************************************************************************)
(* to_wavedrom_json                                                        *)
(***************************************************************************)
RECURSIVE Join(_)
Join(xs) == IF xs = <<>> THEN <<>> ELSE StrOf(Head(xs)) \o Join(Tail(xs))

to_wavedrom_json(ins, outs, wave_data) ==
    LET all_signals == ins \o outs
    IN  [i \in 1..Len(all_signals) |->
            [name |-> all_signals[i], wave |-> Join(wave_data[all_signals[i]])]]

(***************************************************************************)
(* The netlists explored.                                                  *)
(***************************************************************************)
Tok(c) == <<c>>
TimeTokens == {Tok("0"), Tok("1"), Tok("2")}
ValueTokens == {Tok("0"), Tok("1"), Tok("2")}
BitTokens == {Tok("0"), Tok("1")}

GateKinds == {"AND", "OR", "XOR", "NOT", "NAND"}
GateDests == {"x", "y"}
ParamLists == {<<"a", "b">>, <<"x", "a">>, <<"y">>}
GateUniverse == {<<d, k, ps>> : d \in GateDests, k \in GateKinds, ps \in ParamLists}

\* family 1: many gate lists over inputs a b, one stimulus line of bits
InitGates ==
    /\ input_signals = <<"a", "b">>
    /\ output_signals = <<"x", "y">>
    /\ logic_blocks \in SeqsUpTo(GateUniverse, MaxGates)
    /\ lines_cleaned \in {<< <<Tok("0"), u, v>> >> : u, v \in BitTokens}

\* family 2: many stimulus sections over two small circuits
StimLines == {<<t>> \o vs : t \in TimeTokens,
                            vs \in [1..1 -> ValueTokens] \cup [1..2 -> ValueTokens]}
InitStim ==
    /\ input_signals = <<"a", "b">>
    /\ output_signals = <<"x", "y">>
    /\ logic_blocks \in {<< <<"x", "AND", <<"a", "b">> >>, <<"y", "NOT", <<"x">> >> >>,
                         << <<"y", "XOR", <<"x", "b">> >>, <<"x", "OR", <<"a", "b">> >> >>,
                         << <<"x", "NAND", <<"a", "b">> >> >>}
    /\ lines_cleaned \in SeqsUpTo(StimLines, MaxLines)

\* family 3: name collisions between inputs, outputs and gate outputs
InputLists == {<<"a", "b">>, <<"a", "a">>, <<"b">>}
OutputLists == {<<"y">>, <<"a", "y">>, <<"y", "y">>, <<"z">>, <<>>}
NameGateLists == {<< <<"x", "AND", <<"a", "b">> >>, <<"y", "NOT", <<"x">> >> >>,
                  << <<"a", "NOT", <<"b">> >>, <<"y", "OR", <<"a", "b">> >> >>,
                  << <<"a", "NAND", <<"b">> >>, <<"y", "XOR", <<"b", "b">> >> >>}
InitNames ==
    /\ input_signals \in InputLists
    /\ output_signals \in OutputLists
    /\ logic_blocks \in NameGateLists
    /\ lines_cleaned \in {<< <<Tok("0")>> \o v1, <<Tok("1")>> \o v2 >> :
                             v1, v2 \in [1..Len(input_signals) -> BitTokens]}

Init ==
    /\ InitGates \/ InitStim \/ InitNames
    /\ stimuli_data = <<>>
    /\ waveform_map = EmptyMap
    /\ signal_env = EmptyMap
    /\ changed_flag = FALSE
    /\ step = 0
    /\ gidx = 0
    /\ scans = 0
    /\ json_output = <<>>
    /\ err = NoErr
    /\ pc = "parse"

(***************************************************************************)
(* Actions.                                                                *)
(***************************************************************************)
circuit_vars == <<lines_cleaned, input_signals, output_signals, logic_blocks>>

\* main: parse_netlsit, then the start of simulate (lines 75-82)
Parse ==
    /\ pc = "parse"
    /\ LET r == ParseStimulus(lines_cleaned, Len(input_signals))
       IN  IF r.err # NoErr
           THEN /\ err' = r.err
                /\ pc' = "error"
                /\ UNCHANGED <<stimuli_data, waveform_map, step>>
           ELSE /\ stimuli_data' = r.data
                /\ waveform_map' = [n \in all_nodes(input_signals, output_signals, logic_blocks) |-> <<>>]
                /\ step' = 1
                /\ pc' = "step"
                /\ err' = err
    /\ UNCHANGED <<circuit_vars, signal_env, changed_flag, gidx, scans, json_output>>

\* lines 84-86: the next stimulus vector seeds a fresh environment
Seed ==
    /\ pc = "step"
    /\ step <= Len(stimuli_data)
    /\ signal_env' = ZipDict(input_signals, stimuli_data[step][2])
    /\ changed_flag' = TRUE
    /\ scans' = 0
    /\ pc' = "while"
    /\ UNCHANGED <<circuit_vars, stimuli_data, waveform_map, step, gidx, json_output, err>>

\* lines 88-89: the while test, and the start of a full scan
WhileTest ==
    /\ pc = "while"
    /\ IF LoopAgain(changed_flag)
       THEN /\ changed_flag' = FALSE
            /\ gidx' = 1
            /\ scans' = scans + 1
            /\ pc' = IF Len(logic_blocks) = 0 THEN "while" ELSE "for"
       ELSE /\ pc' = "sample"
            /\ UNCHANGED <<changed_flag, gidx, scans>>
    /\ UNCHANGED <<circuit_vars, stimuli_data, waveform_map, signal_env, step, json_output, err>>

\* lines 90-95: one iteration of the for loop over logic_blocks
ScanGate ==
    /\ pc = "for"
    /\ LET r == ScanOne(signal_env, logic_blocks[gidx])
       IN  IF r.err # NoErr
           THEN /\ err' = r.err
                /\ pc' = "error"
                /\ UNCHANGED <<signal_env, changed_flag, gidx>>
           ELSE /\ signal_env' = r.env
                /\ changed_flag' = Progress(changed_flag, r.hit)
                /\ gidx' = gidx + 1
                /\ pc' = IF gidx = Len(logic_blocks) THEN "while" ELSE "for"
                /\ err' = err
    /\ UNCHANGED <<circuit_vars, stimuli_data, waveform_map, step, scans, json_output>>

\* lines 97-98: sampling
Sample ==
    /\ pc = "sample"
    /\ waveform_map' = AppendSamples(waveform_map, SampleNames(input_signals, output_signals), signal_env)
    /\ step' = step + 1
    /\ pc' = "step"
    /\ UNCHANGED <<circuit_vars, stimuli_data, signal_env, changed_flag, gidx, scans, json_output, err>>

\* line 100 and main, lines 123-124: simulate returns and the map is encoded
Encode ==
    /\ pc = "step"
    /\ step > Len(stimuli_data)
    /\ json_output' = to_wavedrom_json(input_signals, output_signals, waveform_map)
    /\ pc' = "done"
    /\ UNCHANGED <<circuit_vars, stimuli_data, waveform_map, signal_env, changed_flag, step, gidx, scans, err>>

Next == Parse \/ Seed \/ WhileTest \/ ScanGate \/ Sample \/ Encode

Spec == Init /\ [][Next]_vars

(***************************************************************************)
(* Vocabulary of the properties.                                           *)
(***************************************************************************)
KnownKinds == {"AND", "OR", "XOR", "NOT"}
SimErrors == {"Unknown gate type", "IndexError"}
ParseErrors == {"Stimulus line mismatch", "Times not strictly increasing"}

Parsed == pc \notin {"parse", "error"} \/ (pc = "error" /\ err.type \in SimErrors)
InStep == pc \in {"while", "for", "sample"}

NoRepeat(s) == \A i, j \in 1..Len(s) : s[i] = s[j] => i = j
Occurrences(s, x) == Cardinality({i \in 1..Len(s) : s[i] = x})

GateOutputs == {logic_blocks[i][1] : i \in 1..Len(logic_blocks)}
GateOutputList == [i \in 1..Len(logic_blocks) |-> logic_blocks[i][1]]
Sampled == input_signals \o output_signals

RightArity(g) ==
    \/ g[2] \in {"AND", "OR", "XOR"} /\ Len(g[3]) = 2
    \/ g[2] = "NOT" /\ Len(g[3]) = 1

\* the names a name depends on, directly
Operands(n) == UNION {Range(logic_blocks[i][3]) : i \in {j \in 1..Len(logic_blocks) : logic_blocks[j][1] = n}}

RECURSIVE DependsClosure(_)
DependsClosure(S) ==
    LET T == S \cup UNION {Operands(n) : n \in S}
    IN  IF T = S THEN S ELSE DependsClosure(T)

Acyclic == \A n \in GateOutputs : n \notin DependsClosure(Operands(n))

BitStimulus == \A k \in 1..Len(stimuli_data) : \A i \in 1..Len(stimuli_data[k][2]) :
                   stimuli_data[k][2][i] \in {0, 1}

WellFormed ==
    /\ Acyclic
    /\ NoRepeat(input_signals \o GateOutputList)
    /\ \A i \in 1..Len(logic_blocks) : RightArity(logic_blocks[i])
    /\ \A i \in 1..Len(logic_blocks) : Range(logic_blocks[i][3]) \subseteq Range(input_signals) \cup GateOutputs
    /\ BitStimulus

\* the truth tables on bits
Truth(kind, a, b) ==
    CASE kind = "AND" -> IF a = 1 /\ b = 1 THEN 1 ELSE 0
      [] kind = "OR" -> IF a = 1 \/ b = 1 THEN 1 ELSE 0
      [] kind = "XOR" -> IF a # b THEN 1 ELSE 0
      [] kind = "NOT" -> IF a = 1 THEN 0 ELSE 1

\* reference evaluation of a name of a well-formed circuit for the input vector vec
RECURSIVE RefVal(_, _)
RefVal(n, vec) ==
    IF n \in Range(input_signals)
    THEN vec[CHOOSE i \in 1..Len(input_signals) : input_signals[i] = n]
    ELSE LET g == logic_blocks[CHOOSE i \in 1..Len(logic_blocks) : logic_blocks[i][1] = n]
         IN  Truth(g[2], RefVal(g[3][1], vec), RefVal(g[3][Len(g[3])], vec))

\* the stimulus step that entry idx of a sampled name's sequence belongs to
StepOfEntry(n, idx) == ((idx - 1) \div Occurrences(Sampled, n)) + 1

(***************************************************************************)
(* C1. For a well-formed circuit (acyclic, input and gate output names     *)
(* pairwise distinct, known kinds with the right arity, every operand an   *)
(* input or a gate output, stimulus values 0/1) every sample recorded for  *)
(* an input is the value of its stimulus column and every sample recorded  *)
(* for a gate-defined output is the recursive truth-function value of its  *)
(* operands at the same step.                                              *)
(***************************************************************************)
SamplesMatchReference ==
    (Parsed /\ WellFormed) =>
        /\ pc # "error"
        /\ \A n \in Range(Sampled) \cap (Range(input_signals) \cup GateOutputs) :
              \A idx \in 1..Len(waveform_map[n]) :
                 waveform_map[n][idx] = RefVal(n, stimuli_data[StepOfEntry(n, idx)][2])

SamplesMatchReferenceWitness ==
    /\ pc = "done"
    /\ WellFormed
    /\ Len(stimuli_data) >= 1
    /\ \E i, j \in 1..Len(logic_blocks) :
          /\ i < j
          /\ logic_blocks[j][1] \in Range(logic_blocks[i][3])
          /\ logic_blocks[i][1] \in Range(output_signals)
          /\ \E idx \in 1..Len(waveform_map[logic_blocks[i][1]]) :
                waveform_map[logic_blocks[i][1]][idx] = 1

(***************************************************************************)
(* C2. Stuck-low: a declared output that is not resolvable (no gate        *)
(* defines it, or its gate waits for an operand that is undefined, on a    *)
(* cycle, or itself stuck) is recorded as 0 at every step; the fixed point *)
(* holds exactly the resolvable names, so the other signals are evaluated; *)
(* and a circuit whose gates all have a known kind and the right arity     *)
(* never ends in an evaluation error.                                      *)
(***************************************************************************)
RECURSIVE ResolvableFrom(_)
ResolvableFrom(R) ==
    LET T == R \cup {logic_blocks[i][1] : i \in {j \in 1..Len(logic_blocks) :
                                                  Range(logic_blocks[j][3]) \subseteq R}}
    IN  IF T = R THEN R ELSE ResolvableFrom(T)

Resolvable == ResolvableFrom(Range(input_signals))

StuckLow ==
    /\ (pc = "sample" => DOMAIN signal_env = Resolvable)
    /\ (Parsed => \A o \in Range(output_signals) \ Resolvable :
                     \A idx \in 1..Len(waveform_map[o]) : waveform_map[o][idx] = 0)
    /\ ((\A i \in 1..Len(logic_blocks) : RightArity(logic_blocks[i])) => err.type \notin SimErrors)

StuckLowWitness ==
    /\ pc = "done"
    /\ Len(stimuli_data) >= 1
    /\ \E o \in Range(output_signals) \cap GateOutputs :
          o \notin Resolvable /\ Len(waveform_map[o]) >= 1
    /\ \E o \in Range(output_signals) \cap GateOutputs :
          o \in Resolvable /\ \E idx \in 1..Len(waveform_map[o]) : waveform_map[o][idx] = 1

(***************************************************************************)
(* C3, as stated. When no name repeats in inputs+outputs, the waveform map *)
(* has the key set inputs \cup gate outputs \cup outputs and every key,    *)
(* gate outputs that are not declared outputs included, holds one value    *)
(* per stimulus step.                                                      *)
(***************************************************************************)
EveryKeyHasOneValuePerStep ==
    (pc = "done" /\ NoRepeat(Sampled)) =>
        /\ DOMAIN waveform_map = Range(input_signals) \cup GateOutputs \cup Range(output_signals)
        /\ \A n \in DOMAIN waveform_map : Len(waveform_map[n]) = Len(stimuli_data)

(***************************************************************************)
(* C3, amended. When no name repeats in inputs+outputs, the waveform map   *)
(* has the key set inputs \cup gate outputs \cup outputs; every name of    *)
(* inputs+outputs holds one value per stimulus step, and a gate output     *)
(* that is neither an input nor a declared output holds the empty          *)
(* sequence.                                                               *)
(***************************************************************************)
SampledKeysHaveOneValuePerStep ==
    (pc = "done" /\ NoRepeat(Sampled)) =>
        /\ DOMAIN waveform_map = Range(input_signals) \cup GateOutputs \cup Range(output_signals)
        /\ \A n \in Range(Sampled) : Len(waveform_map[n]) = Len(stimuli_data)
        /\ \A n \in DOMAIN waveform_map \ Range(Sampled) : waveform_map[n] = <<>>

SampledKeysWitness ==
    /\ pc = "done"
    /\ NoRepeat(Sampled)
    /\ Len(stimuli_data) >= 2
    /\ Len(input_signals) >= 1
    /\ GateOutputs \ Range(Sampled) # {}
    /\ GateOutputs \cap Range(output_signals) # {}

(***************************************************************************)
(* C4, as stated. A circuit that contains a gate of an unknown kind never  *)
(* returns a waveform map: simulate raises the unknown-gate-type error.    *)
(***************************************************************************)
HasUnknownKind == \E i \in 1..Len(logic_blocks) : logic_blocks[i][2] \notin KnownKinds

StimulusValuesAreBits ==
    Parsed =>
        /\ \A k \in 1..Len(stimuli_data) : \A i \in 1..Len(stimuli_data[k][2]) :
              stimuli_data[k][2][i] \in {0, 1}
        /\ \A n \in Range(Sampled) : \A idx \in 1..Len(waveform_map[n]) :
              waveform_map[n][idx] \in {0, 1}
        /\ \A i \in 1..Len(json_output) : \A c \in 1..Len(json_output[i].wave) :
              json_output[i].wave[c] \in {"0", "1"}

(***************************************************************************)
(* C6, as stated. For an acyclic circuit the fixed point of every step and *)
(* the returned waveform map are the same for every permutation of the     *)
(* gate list.                                                              *)
(***************************************************************************)
GatePermutations ==
    {[i \in 1..Len(logic_blocks) |-> logic_blocks[p[i]]] : p \in Permutations(1..Len(logic_blocks))}

SameUnderEveryOrder ==
    /\ pc = "sample" =>
          \A gs \in GatePermutations :
              LET r == FixedPoint(ZipDict(input_signals, stimuli_data[step][2]), gs, TRUE)
              IN  r.err = NoErr /\ r.env = signal_env
    /\ pc = "done" =>
          \A gs \in GatePermutations :
              simulate(input_signals, output_signals, gs, stimuli_data)
                  = [map |-> waveform_map, err |-> NoErr]
    /\ (pc = "error" /\ err.type \in SimErrors) =>
          \A gs \in GatePermutations :
              simulate(input_signals, output_signals, gs, stimuli_data).err # NoErr

OrderInsensitive == Acyclic => SameUnderEveryOrder

(***************************************************************************)
(* C6, amended. For an acyclic circuit whose gate output names are         *)
(* pairwise distinct, the fixed point of every step and the returned       *)
(* waveform map are the same for every permutation of the gate list (and a *)
(* run that raises under one order raises under every order).              *)
(***************************************************************************)
OrderInsensitiveDistinctOutputs ==
    (Acyclic /\ NoRepeat(GateOutputList)) => SameUnderEveryOrder

OrderInsensitiveWitness ==
    /\ pc = "done"
    /\ Acyclic
    /\ NoRepeat(GateOutputList)
    /\ Len(logic_blocks) = 2
    /\ Len(stimuli_data) >= 1
    /\ logic_blocks[2][1] \in Range(logic_blocks[1][3])
    /\ GateOutputs \subseteq DOMAIN waveform_map
    /\ \E idx \in 1..Len(waveform_map[logic_blocks[1][1]]) : waveform_map[logic_blocks[1][1]][idx] = 1

(***************************************************************************)
(* C7. The document has len(inputs) + len(outputs) entries, in the order   *)
(* inputs then outputs, and every wave has one character per stimulus      *)
(* step, also when a name is both an input and an output (stated here for *)
(* stimulus values that are all 0/1 and for lists without a repeated name, *)
(* so that the only repetition is a name that is an input and an output).  *)
(***************************************************************************)
DocumentShape ==
    (pc = "done" /\ BitStimulus /\ NoRepeat(input_signals) /\ NoRepeat(output_signals)) =>
        /\ Len(json_output) = Len(input_signals) + Len(output_signals)
        /\ \A i \in 1..Len(json_output) :
              /\ json_output[i].name = Sampled[i]
              /\ Len(json_output[i].wave) = Len(stimuli_data)

(***************************************************************************)
(* C8. When every stimulus line has one value per input, the parser raises *)
(* the times error if and only if the timestamps in file order are not     *)
(* strictly increasing; the empty and the one-line section are accepted;   *)
(* on rejection no circuit is returned and no evaluation step has run.     *)
(***************************************************************************)
FileTimes == [i \in 1..Len(lines_cleaned) |-> IntOf(lines_cleaned[i][1])]
StrictlyIncreasing(ts) == \A i, j \in 1..Len(ts) : i < j => ts[i] < ts[j]
AllLinesFit == \A i \in 1..Len(lines_cleaned) : Len(lines_cleaned[i]) - 1 = Len(input_signals)

TimesRejectedIffNotIncreasing ==
    (pc # "parse" /\ AllLinesFit) =>
        /\ (err.type = "Times not strictly increasing") <=> ~StrictlyIncreasing(FileTimes)
        /\ err.type \in ParseErrors =>
              /\ pc = "error"
              /\ stimuli_data = <<>> /\ waveform_map = EmptyMap
              /\ signal_env = EmptyMap /\ step = 0 /\ scans = 0
        /\ err.type \notin ParseErrors => TimesOf(stimuli_data) = FileTimes

TimesRejectedWitness ==
    /\ pc = "error"
    /\ err.type = "Times not strictly increasing"
    /\ Len(lines_cleaned) = 2
    /\ FileTimes[1] = FileTimes[2]

(***************************************************************************)
(* C9. In every step a full scan that does not end the loop has added a    *)
(* new gate output, so a step starts at most (number of gates + 1) full    *)
(* scans, and the run can always take its next step until it has returned  *)
(* or raised.                                                              *)
(***************************************************************************)
ScansBounded ==
    /\ scans <= Len(logic_blocks) + 1
    /\ (pc = "while" /\ changed_flag /\ scans >= 1) =>
          Cardinality(DOMAIN signal_env) >= Cardinality(Range(input_signals)) + scans
    /\ InStep => Cardinality(DOMAIN signal_env) <= Cardinality(Range(input_signals) \cup GateOutputs)
    /\ (InStep \/ pc = "step") => ENABLED Next

ScansBoundedWitness ==
    /\ pc = "sample"
    /\ Len(logic_blocks) >= 2
    /\ scans >= 2
    /\ ~Acyclic
    /\ GateOutputs \ DOMAIN signal_env # {}

(***************************************************************************)
(* C10. Within a step the environment is write-once: a name present keeps  *)
(* its value and is never removed; an input keeps its stimulus value even  *)
(* when a gate has the same output name.                                   *)
(***************************************************************************)
WriteOnce ==
    [][ InStep =>
            /\ \A n \in DOMAIN signal_env :
                  n \in DOMAIN signal_env' /\ signal_env'[n] = signal_env[n]
            /\ \A n \in Range(input_signals) :
                  signal_env'[n] = ZipDict(input_signals, stimuli_data[step][2])[n] ]_vars

WriteOnceWitness ==
    /\ pc = "sample"
    /\ \E i \in 1..Len(logic_blocks) :
          LET g == logic_blocks[i]
          IN  /\ g[2] = "NOT"
              /\ g[1] \in Range(input_signals)
              /\ ParamsReady(signal_env, g[3])
              /\ eval_gate(g[2], [k \in 1..Len(g[3]) |-> signal_env[g[3][k]]]).val # signal_env[g[1]]

====
